---- MODULE Spec2Model ----
(***************************************************************************)
(* fqc: detection of the single-cell technology and of the file ordering   *)
(* of a set of FASTQ files (src/fqc/fqc.py, src/fqc/technologies.py,       *)
(* src/fqc/main.py), and the split of a BAM file into FASTQ files          *)
(* (src/fqc/bam.py).                                                       *)
(*                                                                         *)
(* A read is a sequence of one-character strings.  Python indices are      *)
(* 0-based: permutation[k] is permutation[k + 1] here, read[a:b] is        *)
(* SubSeq(read, a + 1, b).  A Python dict whose iteration order matters    *)
(* is a sequence of entries in insertion order.                            *)
(***************************************************************************)
EXTENDS Integers, Sequences, FiniteSets, TLC

\* Largest number of input FASTQ files of a run.
MaxFiles == 3

\* Largest number of reads sampled from one FASTQ file (the n of fqc_fastq).
MaxReads == 3

\* Largest number of entries of a BAM file.
MaxRecords == 3

\* Largest number of parser threads of to_fastq.
MaxThreads == 2

\* Largest capacity of the queue of to_fastq.
MaxQueue == 2

\* Python's None in an integer field (ReadSubstring start/stop of the
\* sequence read).
None == -1

\* Python's None in whitelist_path: a technology without a whitelist.
NoPath == ""

\* A string of n copies of the character c.
Rep(c, n) == [k \in 1..n |-> c]

----------------------------------------------------------------------------
(* technologies.py *)

ReadSubstring(file, start, stop) == [file |-> file, start |-> start, stop |-> stop]

Technology(name, description, n_files, reads_file, umi_positions, barcode_positions, whitelist_path) ==
    [name |-> name, description |-> description, n_files |-> n_files,
     reads_file |-> reads_file, umi_positions |-> umi_positions,
     barcode_positions |-> barcode_positions, whitelist_path |-> whitelist_path]

OrderedTechnology(technology, permutation) ==
    [technology |-> technology, permutation |-> permutation]

TECHNOLOGIES ==
    << Technology("10xv1", "10x version 1", 3, ReadSubstring(2, None, None),
                  << ReadSubstring(1, 0, 10) >>, << ReadSubstring(0, 0, 14) >>,
                  "10xv1_whitelist.txt.gz"),
       Technology("10xv2", "10x version 2", 2, ReadSubstring(1, None, None),
                  << ReadSubstring(0, 16, 26) >>, << ReadSubstring(0, 0, 16) >>,
                  "10xv2_whitelist.txt.gz"),
       Technology("10xv3", "10x version 3", 2, ReadSubstring(1, None, None),
                  << ReadSubstring(0, 16, 28) >>, << ReadSubstring(0, 0, 16) >>,
                  "10xv3_whitelist.txt.gz"),
       Technology("indropsv3", "inDrops version 3", 3, ReadSubstring(2, None, None),
                  << ReadSubstring(1, 8, 14) >>,
                  << ReadSubstring(0, 0, 8), ReadSubstring(1, 0, 8) >>,
                  "indropsv3_whitelist.txt.gz") >>

\* A technology without a whitelist that a caller of the library functions
\* may pass in its own technology list (the registry itself holds none).
dropseq ==
    Technology("dropseq", "DropSeq", 2, ReadSubstring(1, None, None),
               << ReadSubstring(0, 12, 20) >>, << ReadSubstring(0, 0, 12) >>,
               NoPath)

\* The set of barcodes in the whitelist file at `path`
\* (set(f.read().splitlines())): the content of a data file.
Whitelist(path) ==
    CASE path = "10xv1_whitelist.txt.gz" -> {Rep("A", 14)}
      [] path = "10xv2_whitelist.txt.gz" -> {Rep("A", 16)}
      [] path = "10xv3_whitelist.txt.gz" -> {Rep("A", 16)}
      [] path = "indropsv3_whitelist.txt.gz" -> {Rep("A", 16)}
      [] OTHER -> {}

----------------------------------------------------------------------------
(* The sampled input *)

\* The reads a sampled file is made of: a full-length read whose barcodes
\* are whitelisted, a read that covers 10xv2 and dropseq but not 10xv3 and
\* matches no whitelist, and a read too short for every 2-file barcode.
ReadA == Rep("A", 28)
ReadC == Rep("C", 26)
ReadS == Rep("A", 10)

\* The sampled reads of one file when the sample holds k reads: one read
\* repeated, ReadA with another read last or second, or a file that ran
\* out one read early.
FileShapes(k) ==
    IF k = 0 THEN { <<>> }
    ELSE { [j \in 1..k |-> ReadA], [j \in 1..k |-> ReadC], [j \in 1..k |-> ReadS],
           [j \in 1..k |-> IF j = k THEN ReadC ELSE ReadA],
           [j \in 1..k |-> IF j = 2 THEN ReadS ELSE ReadA],
           [j \in 1..(k - 1) |-> ReadA] }

\* The files after the second are one read repeated (the permutations put
\* every file in every role).
TailShapes(k) == { [j \in 1..k |-> ReadA], [j \in 1..k |-> ReadC] }

----------------------------------------------------------------------------
(* fqc.py: pure functions *)

range(n) == [k \in 1..n |-> k - 1]

\* itertools.permutations(pool): every ordering of pool, in lexicographic
\* order of the positions in pool.
RECURSIVE permutations(_)
permutations(pool) ==
    IF pool = <<>> THEN << <<>> >>
    ELSE LET Without(k) == SubSeq(pool, 1, k - 1) \o SubSeq(pool, k + 1, Len(pool))
             Lead(k) == LET rest == permutations(Without(k))
                        IN  [j \in 1..Len(rest) |-> <<pool[k]>> \o rest[j]]
             RECURSIVE Cat(_)
             Cat(k) == IF k > Len(pool) THEN <<>> ELSE Lead(k) \o Cat(k + 1)
         IN  Cat(1)

\* ordered.extend with the new hypotheses put in front of the list.
extend_ordered_front(ordered, technology, perms) ==
    [j \in 1..Len(perms) |-> OrderedTechnology(technology, perms[j])] \o ordered

\* ordered.extend([...]) for one technology.
extend_ordered(ordered, technology, perms) ==
    ordered \o [j \in 1..Len(perms) |-> OrderedTechnology(technology, perms[j])]

all_ordered_technologies(technologies, n) ==
    LET techs == IF technologies = <<>> THEN TECHNOLOGIES ELSE technologies
        perms == permutations(range(n))
        RECURSIVE Loop(_, _)
        Loop(k, ordered) ==
            IF k > Len(techs) THEN ordered
            ELSE Loop(k + 1, extend_ordered(ordered, techs[k], perms))
    IN  Loop(1, <<>>)

\* The test of filter_files with <= for ==.
files_match_atmost(n_reads, technology) == n_reads <= technology.n_files

\* The test of filter_files on one hypothesis.
files_match(n_reads, technology) == n_reads = technology.n_files

filter_files(reads, technologies) ==
    LET techs == IF technologies = <<>>
                 THEN all_ordered_technologies(TECHNOLOGIES, Len(reads))
                 ELSE technologies
    IN  SelectSeq(techs, LAMBDA o : files_match(Len(reads), o.technology))

----------------------------------------------------------------------------
(* fqc.py: extract_barcodes_umis *)

\* dict.setdefault(key, default) on a dict held as a function.
setdefault(d, key, default) ==
    IF key \in DOMAIN d THEN d ELSE (key :> default) @@ d

\* The inner dicts (permutation -> list) are iterated by the scoring loop:
\* they are sequences of entries [p, v] in insertion order.
odict_has(od, p) == \E k \in 1..Len(od) : od[k].p = p

odict_setdefault(od, p) ==
    IF odict_has(od, p) THEN od ELSE Append(od, [p |-> p, v |-> <<>>])

odict_append(od, p, x) ==
    [k \in 1..Len(od) |-> IF od[k].p = p THEN [od[k] EXCEPT !.v = Append(@, x)] ELSE od[k]]

odict_del(od, p) == SelectSeq(od, LAMBDA e : e.p # p)

\* read[start:stop] for 0 <= start and 0 <= stop: Python clamps a slice to
\* the string.
slice(read, start, stop) ==
    SubSeq(read, start + 1, IF stop < Len(read) THEN stop ELSE Len(read))

\* The length test without the test of the end of the region.
read_too_short_start(read, substring) == Len(read) <= substring.start

\* The length test on the read a region resolves to.
read_too_short(read, substring) ==
    Len(read) <= substring.start \/ Len(read) < substring.stop

\* One `for substring in positions` loop over the reads `rd` of a position:
\* the substrings collected, whether the loop broke on a short read, and
\* whether permutation[substring.file] raised IndexError.
scan_positions(positions, permutation, rd) ==
    LET RECURSIVE Loop(_, _)
        Loop(k, list) ==
            IF k > Len(positions)
            THEN [list |-> list, invalid |-> FALSE, error |-> FALSE]
            ELSE LET substring == positions[k]
                 IN  IF substring.file + 1 > Len(permutation)
                     THEN [list |-> list, invalid |-> FALSE, error |-> TRUE]
                     ELSE LET read == rd[permutation[substring.file + 1] + 1]
                          IN  IF read_too_short(read, substring)
                              THEN [list |-> list, invalid |-> TRUE, error |-> FALSE]
                              ELSE Loop(k + 1, Append(list,
                                        slice(read, substring.start, substring.stop)))
    IN  Loop(1, <<>>)

\* An invalidation that leaves the accumulated entries in the dicts.
invalidate_keep(b, u, v, name, permutation) ==
    [barcodes |-> b, umis |-> u,
     invalids |-> [v EXCEPT ![name] = @ \cup {permutation}],
     error |-> ""]

\* What a hypothesis that was found invalid at this position leaves behind:
\* it joins the invalid set and its entries are deleted.
invalidate(b, u, v, name, permutation) ==
    [barcodes |-> [b EXCEPT ![name] = odict_del(@, permutation)],
     umis |-> [u EXCEPT ![name] = odict_del(@, permutation)],
     invalids |-> [v EXCEPT ![name] = @ \cup {permutation}],
     error |-> ""]

\* The body of `for ordered in technologies` for the reads `rd` of one
\* position, on st = [barcodes, umis, invalids, error].
extract_ordered(st, ordered, rd) ==
    LET technology == ordered.technology
        permutation == ordered.permutation
        name == technology.name
        b0 == setdefault(st.barcodes, name, <<>>)
        u0 == setdefault(st.umis, name, <<>>)
        v0 == setdefault(st.invalids, name, {})
    IN  IF permutation \in v0[name]
        THEN [barcodes |-> b0, umis |-> u0, invalids |-> v0, error |-> ""]
        ELSE LET bc == scan_positions(technology.barcode_positions, permutation, rd)
                 um == scan_positions(technology.umi_positions, permutation, rd)
                 b1 == [b0 EXCEPT ![name] =
                          odict_append(odict_setdefault(@, permutation), permutation, bc.list)]
                 u1 == [u0 EXCEPT ![name] =
                          odict_append(odict_setdefault(@, permutation), permutation, um.list)]
             IN  IF bc.error \/ um.error
                 THEN [st EXCEPT !.error = "IndexError"]
                 ELSE IF bc.invalid \/ um.invalid
                      THEN invalidate(b1, u1, v0, name, permutation)
                      ELSE [barcodes |-> b1, umis |-> u1, invalids |-> v0, error |-> ""]

\* One iteration of `for i, reads in enumerate(zip(...))`: every hypothesis
\* in list order, stopping at the first exception.
extract_position(st, technologies, rd) ==
    LET RECURSIVE Loop(_, _)
        Loop(k, s) ==
            IF k > Len(technologies) \/ s.error # "" THEN s
            ELSE Loop(k + 1, extract_ordered(s, technologies[k], rd))
    IN  Loop(1, st)

----------------------------------------------------------------------------
(* fqc.py: filter_barcodes_umis, the whitelist filter *)

RECURSIVE join(_)
join(list) == IF list = <<>> THEN <<>> ELSE Head(list) \o join(Tail(list))

barcode_technologies(technologies) ==
    SelectSeq(TECHNOLOGIES, LAMBDA t :
        /\ t.whitelist_path # NoPath
        /\ \E k \in 1..Len(technologies) : technologies[k].technology.name = t.name)

\* The count loop over the barcodes of one permutation.
count_matches(v, whitelist) ==
    Cardinality({j \in 1..Len(v) : join(v[j]) \in whitelist})

\* The test with count / n >= 0.5.
keep_max_atleast(acc, ordered, count, n) ==
    IF n = 0 THEN [acc EXCEPT !.error = "ZeroDivisionError"]
    ELSE IF 2 * count >= n /\ count > acc.max_count
         THEN [max_ordered |-> <<ordered>>, max_count |-> count, error |-> ""]
         ELSE acc

\* The test with count >= max_count: the last of equal counts is kept.
keep_max_last(acc, ordered, count, n) ==
    IF n = 0 THEN [acc EXCEPT !.error = "ZeroDivisionError"]
    ELSE IF 2 * count > n /\ count >= acc.max_count
         THEN [max_ordered |-> <<ordered>>, max_count |-> count, error |-> ""]
         ELSE acc

\* The test that keeps every hypothesis of the largest count.
keep_max_ties(acc, ordered, count, n) ==
    IF n = 0 THEN [acc EXCEPT !.error = "ZeroDivisionError"]
    ELSE IF 2 * count > n /\ count > acc.max_count
         THEN [max_ordered |-> <<ordered>>, max_count |-> count, error |-> ""]
         ELSE IF 2 * count > n /\ count = acc.max_count
              THEN [acc EXCEPT !.max_ordered = Append(@, ordered)]
              ELSE acc

\* `if count / n > 0.5 and count > max_count`, on
\* acc = [max_ordered, max_count, error]; max_ordered = <<>> is None.
keep_max(acc, ordered, count, n) ==
    IF n = 0 THEN [acc EXCEPT !.error = "ZeroDivisionError"]
    ELSE IF 2 * count > n /\ count > acc.max_count
         THEN [max_ordered |-> <<ordered>>, max_count |-> count, error |-> ""]
         ELSE acc

\* open_as_text(path, 'r') followed by f.read().splitlines(): the files of
\* `unreadable` are missing, gzip.open / open raise on them.
open_as_text(path, unreadable) ==
    IF path \in unreadable
    THEN [error |-> "FileNotFoundError", lines |-> {}]
    ELSE [error |-> "", lines |-> Whitelist(path)]

\* The body of `for technology in barcode_technologies`: the whitelist is
\* opened, then `for p in barcodes[technology.name]`.
score_technology(acc, technology, barcodes, unreadable) ==
    IF open_as_text(technology.whitelist_path, unreadable).error # ""
    THEN [acc EXCEPT !.error = open_as_text(technology.whitelist_path, unreadable).error]
    ELSE IF technology.name \notin DOMAIN barcodes
    THEN [acc EXCEPT !.error = "KeyError"]
    ELSE LET od == barcodes[technology.name]
             whitelist == open_as_text(technology.whitelist_path, unreadable).lines
             RECURSIVE Loop(_, _)
             Loop(k, a) ==
                 IF k > Len(od) \/ a.error # "" THEN a
                 ELSE Loop(k + 1, keep_max(a, OrderedTechnology(technology, od[k].p),
                                           count_matches(od[k].v, whitelist), Len(od[k].v)))
         IN  Loop(1, acc)

\* The whitelist filter followed, when it keeps nothing, by a second tier
\* over the hypotheses without a whitelist: the one with the fewest distinct
\* barcodes, when these are fewer than the reads and fewer than any other's.
whitelist_filter_tier2(technologies, barcodes, unreadable) ==
    LET bts == barcode_technologies(technologies)
        RECURSIVE Loop(_, _)
        Loop(k, a) ==
            IF k > Len(bts) \/ a.error # "" THEN a
            ELSE Loop(k + 1, score_technology(a, bts[k], barcodes, unreadable))
        tier1 == Loop(1, [max_ordered |-> <<>>, max_count |-> 0, error |-> ""])
        others == SelectSeq(technologies, LAMBDA o :
                      /\ o.technology.whitelist_path = NoPath
                      /\ o.technology.name \in DOMAIN barcodes
                      /\ odict_has(barcodes[o.technology.name], o.permutation))
        v(o) == LET od == barcodes[o.technology.name]
                IN  od[CHOOSE k \in 1..Len(od) : od[k].p = o.permutation].v
        uniq(o) == Cardinality({ join(v(o)[j]) : j \in 1..Len(v(o)) })
        best == SelectSeq(others, LAMBDA o :
                    /\ uniq(o) < Len(v(o))
                    /\ \A m \in 1..Len(others) :
                         others[m] # o => uniq(others[m]) > uniq(o))
    IN  IF tier1.error # "" \/ tier1.max_ordered # <<>> \/ best = <<>>
        THEN tier1
        ELSE [tier1 EXCEPT !.max_ordered = << best[1] >>]

\* `for technology in barcode_technologies`, from max_ordered = None,
\* max_count = 0.
whitelist_filter(technologies, barcodes, unreadable) ==
    LET bts == barcode_technologies(technologies)
        RECURSIVE Loop(_, _)
        Loop(k, a) ==
            IF k > Len(bts) \/ a.error # "" THEN a
            ELSE Loop(k + 1, score_technology(a, bts[k], barcodes, unreadable))
    IN  Loop(1, [max_ordered |-> <<>>, max_count |-> 0, error |-> ""])

----------------------------------------------------------------------------
(* fqc.py: fqc_fastq *)

\* `len(set(rs)) / len(rs) < 0.05`, for a non-empty rs.
is_index_read(rs) == 20 * Cardinality({rs[j] : j \in 1..Len(rs)}) < Len(rs)

\* The loop over the paths: reads maps a path (the index of the file on the
\* command line) to its sampled reads; an empty sample divides by zero.
read_fastqs(fastqs) ==
    LET RECURSIVE Loop(_, _)
        Loop(f, reads) ==
            IF f > Len(fastqs) THEN [reads |-> reads, error |-> ""]
            ELSE IF Len(fastqs[f]) = 0 THEN [reads |-> reads, error |-> "ZeroDivisionError"]
            ELSE IF is_index_read(fastqs[f]) THEN Loop(f + 1, reads)
            ELSE Loop(f + 1, Append(reads, [path |-> f - 1, rs |-> fastqs[f]]))
    IN  Loop(1, <<>>)

----------------------------------------------------------------------------
(* main.py *)

\* main, lines 106-117: what is logged and printed for the pair
\* (fastqs, technologies), and the status main leaves.
report(paths, hypotheses) ==
    IF Len(hypotheses) = 0
    THEN [diagnostic |-> "error", stdout |-> <<>>, exit_code |-> 0]
    ELSE IF Len(hypotheses) = 1
    THEN [diagnostic |-> "info",
          stdout |-> << hypotheses[1].technology.name,
                        [k \in 1..Len(hypotheses[1].permutation) |->
                            paths[hypotheses[1].permutation[k] + 1]] >>,
          exit_code |-> 0]
    ELSE [diagnostic |-> "warning", stdout |-> <<>>, exit_code |-> 0]

----------------------------------------------------------------------------
(* State *)

VARIABLES
    call,          \* "fqc_fastq": the command-line path; "library": the caller
                   \* runs filter_files and filter_barcodes_umis itself
    fastqs,        \* per input file, the reads Fastq(path)[skip:skip + n] gives
    techArg,       \* the technology list of a library caller (<<>>: None)
    pc,
    reads,         \* the OrderedDict path -> reads
    ordered,       \* what all_ordered_technologies returned
    filtered,      \* what filter_files returned
    technologies,  \* the hypotheses filter_barcodes_umis works on
    i,             \* read positions processed by extract_barcodes_umis
    barcodes,
    umis,
    invalids,
    possible,      \* what filter_barcodes_umis returned
    err,           \* the exception raised, "" when none
    unreadable,    \* the whitelist files filter_barcodes_umis finds missing
    exit_code,     \* the exit status of the fqc command, None while it runs
    stdout,        \* what main printed
    diagnostic     \* the level of the message main logged about the result

\* BAM.to_fastq (src/fqc/bam.py)
VARIABLES
    bam_technology, \* self.technology
    bam_count,      \* the number of entries of the BAM file
    n_threads,      \* the parameter threads
    prefix,
    maxsize,        \* the capacity of the queue
    main_pc,        \* where the thread that runs to_fastq is
    n_put,          \* q.put calls completed: entries first, then sentinels
    joined,         \* threads joined so far
    merged,         \* output files combined so far
    queue,          \* the queue q, oldest first; None is the sentinel
    parser_pc,      \* where each BAM.parser thread is
    held,           \* the entry each parser thread holds, None when none
    disk,           \* the files that exist: path -> records written
    result,         \* what to_fastq returned
    bam_err         \* the exception that ended to_fastq, "" when none

fqc_vars == <<call, fastqs, techArg, pc, reads, ordered, filtered, technologies, i,
              barcodes, umis, invalids, possible, err, unreadable, exit_code,
              stdout, diagnostic>>

bam_vars == <<bam_technology, bam_count, n_threads, prefix, maxsize, main_pc, n_put,
              joined, merged, queue, parser_pc, held, disk, result, bam_err>>

vars == <<fqc_vars, bam_vars>>

\* to_fastq is not running.
BamIdle ==
    /\ bam_technology = <<>>
    /\ bam_count = 0
    /\ n_threads = 0
    /\ prefix = ""
    /\ maxsize = 0
    /\ main_pc = "idle"
    /\ n_put = 0
    /\ joined = 0
    /\ merged = 0
    /\ queue = <<>>
    /\ parser_pc = <<>>
    /\ held = <<>>
    /\ disk = <<>>
    /\ result = [kind |-> "None"]
    /\ bam_err = ""

Min(S) == CHOOSE x \in S : \A y \in S : x <= y

\* The number of tuples zip(*reads.values()) yields.
n_positions == IF reads = <<>> THEN 0 ELSE Min({Len(reads[f].rs) : f \in 1..Len(reads)})

\* The tuple zip yields at position k (0-based).
zipped(k) == [f \in 1..Len(reads) |-> reads[f].rs[k + 1]]

SampledFiles(n, k) ==
    { fs \in [1..n -> FileShapes(k)] : \A f \in 3..n : fs[f] \in TailShapes(k) }

Inputs == UNION { SampledFiles(n, k) : n \in 0..MaxFiles, k \in 0..MaxReads }

\* What may be wrong with the whitelist files when filter_barcodes_umis
\* opens them: nothing, or one of them is missing.
MissingWhitelists ==
    {{}} \cup { {TECHNOLOGIES[t].whitelist_path} : t \in 1..Len(TECHNOLOGIES) }

Init ==
    /\ call \in {"fqc_fastq", "library"}
    /\ fastqs \in Inputs
    /\ techArg \in (IF call = "fqc_fastq" THEN { <<>> }
                    ELSE { <<>>, Append(TECHNOLOGIES, dropseq) })
    /\ pc = (IF call = "fqc_fastq" THEN "fqc_fastq" ELSE "filter_files")
    /\ reads = (IF call = "fqc_fastq" THEN <<>>
                ELSE [f \in 1..Len(fastqs) |-> [path |-> f - 1, rs |-> fastqs[f]]])
    /\ ordered = <<>>
    /\ filtered = <<>>
    /\ technologies = <<>>
    /\ i = 0
    /\ barcodes = <<>>
    /\ umis = <<>>
    /\ invalids = <<>>
    /\ possible = <<>>
    /\ err = ""
    /\ unreadable = {}
    /\ exit_code = None
    /\ stdout = <<>>
    /\ diagnostic = ""
    /\ BamIdle

\* fqc_fastq, lines 325-340: sample every file, drop the index reads.
ReadFastqs ==
    /\ pc = "fqc_fastq"
    /\ LET r == read_fastqs(fastqs)
       IN  IF r.error # ""
           THEN /\ pc' = "raised"
                /\ err' = r.error
                /\ UNCHANGED reads
           ELSE /\ pc' = "filter_files"
                /\ reads' = r.reads
                /\ UNCHANGED err
    /\ UNCHANGED <<call, fastqs, techArg, ordered, filtered, technologies, i,
                   barcodes, umis, invalids, possible>>
    /\ UNCHANGED <<unreadable, exit_code, stdout, diagnostic, bam_vars>>

\* filter_files(reads) of fqc_fastq, or of a library caller with its own
\* technology list.
FilterFiles ==
    /\ pc = "filter_files"
    /\ ordered' = (IF call = "fqc_fastq"
                   THEN all_ordered_technologies(TECHNOLOGIES, Len(reads))
                   ELSE all_ordered_technologies(techArg, Len(reads)))
    /\ filtered' = filter_files(reads, IF call = "fqc_fastq" THEN <<>> ELSE ordered')
    /\ pc' = "filter_barcodes_umis"
    /\ UNCHANGED <<call, fastqs, techArg, reads, technologies, i, barcodes, umis,
                   invalids, possible, err>>
    /\ UNCHANGED <<unreadable, exit_code, stdout, diagnostic, bam_vars>>

\* filter_barcodes_umis, lines 166-169, and extract_barcodes_umis up to its
\* loop: an empty hypothesis list is replaced by every ordering of every
\* registered technology.
EnterFilterBarcodesUmis ==
    /\ pc = "filter_barcodes_umis"
    /\ technologies' = (IF filtered = <<>>
                        THEN all_ordered_technologies(TECHNOLOGIES, Len(reads))
                        ELSE filtered)
    /\ i' = 0
    /\ barcodes' = <<>>
    /\ umis' = <<>>
    /\ invalids' = <<>>
    /\ pc' = "extract"
    /\ UNCHANGED <<call, fastqs, techArg, reads, ordered, filtered, possible, err>>
    /\ UNCHANGED <<unreadable, exit_code, stdout, diagnostic, bam_vars>>

\* extract_barcodes_umis: one read position.
ExtractPosition ==
    /\ pc = "extract"
    /\ i < n_positions
    /\ LET st == extract_position(
                     [barcodes |-> barcodes, umis |-> umis, invalids |-> invalids,
                      error |-> ""], technologies, zipped(i))
       IN  IF st.error # ""
           THEN /\ pc' = "raised"
                /\ err' = st.error
                /\ UNCHANGED <<i, barcodes, umis, invalids>>
           ELSE /\ barcodes' = st.barcodes
                /\ umis' = st.umis
                /\ invalids' = st.invalids
                /\ i' = i + 1
                /\ UNCHANGED <<pc, err>>
    /\ UNCHANGED <<call, fastqs, techArg, reads, ordered, filtered, technologies,
                   possible>>
    /\ UNCHANGED <<unreadable, exit_code, stdout, diagnostic, bam_vars>>

\* extract_barcodes_umis returns (barcodes, umis, invalids).
ExtractReturn ==
    /\ pc = "extract"
    /\ i = n_positions
    /\ pc' = "score"
    /\ UNCHANGED <<call, fastqs, techArg, reads, ordered, filtered, technologies, i,
                   barcodes, umis, invalids, possible, err>>
    /\ UNCHANGED <<unreadable, exit_code, stdout, diagnostic, bam_vars>>

\* filter_barcodes_umis, lines 170-209: the whitelist filter and the return.
ScoreWhitelists ==
    /\ pc = "score"
    /\ \E u \in MissingWhitelists :
         LET acc == whitelist_filter(technologies, barcodes, u)
         IN  /\ unreadable' = u
             /\ IF acc.error # ""
                THEN /\ pc' = "raised"
                     /\ err' = acc.error
                     /\ UNCHANGED possible
                ELSE /\ pc' = "done"
                     /\ possible' = acc.max_ordered
                     /\ UNCHANGED err
    /\ UNCHANGED <<call, fastqs, techArg, reads, ordered, filtered, technologies, i,
                   barcodes, umis, invalids>>
    /\ UNCHANGED <<exit_code, stdout, diagnostic, bam_vars>>

\* main, lines 106-117, after fqc_fastq returned; main then returns and the
\* command exits with status 0.
MainReport ==
    /\ call = "fqc_fastq"
    /\ pc = "done"
    /\ LET r == report([k \in 1..Len(reads) |-> reads[k].path], possible)
       IN  /\ stdout' = r.stdout
           /\ diagnostic' = r.diagnostic
           /\ exit_code' = r.exit_code
    /\ pc' = "exit"
    /\ UNCHANGED <<call, fastqs, techArg, reads, ordered, filtered, technologies, i,
                   barcodes, umis, invalids, possible, err, unreadable, bam_vars>>

\* An exception of fqc_fastq that nothing catches: the interpreter prints
\* the traceback and exits with status 1.
MainUncaught ==
    /\ call = "fqc_fastq"
    /\ pc = "raised"
    /\ exit_code' = 1
    /\ pc' = "exit"
    /\ UNCHANGED <<call, fastqs, techArg, reads, ordered, filtered, technologies, i,
                   barcodes, umis, invalids, possible, err, unreadable, stdout,
                   diagnostic, bam_vars>>

Next ==
    \/ ReadFastqs
    \/ FilterFiles
    \/ EnterFilterBarcodesUmis
    \/ ExtractPosition
    \/ ExtractReturn
    \/ ScoreWhitelists
    \/ MainReport
    \/ MainUncaught

Spec == Init /\ [][Next]_vars

----------------------------------------------------------------------------
(* bam.py: BAM.to_fastq and the BAM.parser threads.  BAM entries are named  *)
(* 1..bam_count in file order (query_name); threads and output files are    *)
(* numbered from 0 as in the code.                                          *)

\* The barcode and UMI lengths (CR, UR tags) of the BAM files of the model.
TagLengths == { <<14, 10>>, <<16, 10>> }

\* The prefixes of the model.
Prefixes == { "", "out" }

RECURSIVE total_length(_)
total_length(positions) ==
    IF positions = <<>> THEN 0
    ELSE (Head(positions).stop - Head(positions).start) + total_length(Tail(positions))

\* detect_technology: the 10x technology whose barcode and UMI lengths are
\* those of the first entry; <<>> when there is none (an exception).  The
\* dict comprehension keeps the last technology of a key.
detect_technology(barcode_length, umi_length) ==
    LET hits == SelectSeq(TECHNOLOGIES, LAMBDA t :
                    /\ SubSeq(t.name, 1, 3) = "10x"
                    /\ total_length(t.barcode_positions) = barcode_length
                    /\ total_length(t.umi_positions) = umi_length)
    IN  IF hits = <<>> THEN <<>> ELSE hits[Len(hits)]

\* f'{prefix}_{i+1}.fastq.gz' if prefix else f'{i+1}.fastq.gz'
fastq_path(pre, r) ==
    IF pre # "" THEN pre \o "_" \o ToString(r + 1) \o ".fastq.gz"
    ELSE ToString(r + 1) \o ".fastq.gz"

\* f'{prefix}_{i+1}_part{j}.fastq.gz' if prefix else f'{i+1}_part{j}.fastq.gz'
part_path(pre, r, j) ==
    IF pre # "" THEN pre \o "_" \o ToString(r + 1) \o "_part" \o ToString(j) \o ".fastq.gz"
    ELSE ToString(r + 1) \o "_part" \o ToString(j) \o ".fastq.gz"

\* fastqs, lines 165-168.
output_paths(pre, technology) == [r \in 1..technology.n_files |-> fastq_path(pre, r - 1)]

\* groups, lines 169-172: groups[i][j] is the shard of output i and thread j.
shard_groups(pre, technology, threads) ==
    [r \in 1..technology.n_files |-> [j \in 1..threads |-> part_path(pre, r - 1, j - 1)]]

\* A grouping that hands thread j, for output r, the shard of thread
\* j + r (modulo the number of threads).
thread_group_shifted(groups, j) ==
    [r \in 1..Len(groups) |-> groups[r][((j + r - 1) % Len(groups[r])) + 1]]

\* zip(*groups): the shards of thread j, one per output file.
thread_group(groups, j) == [r \in 1..Len(groups) |-> groups[r][j + 1]]

\* The four lines a parser thread writes to file r for an entry: the name
\* line of the entry and the read of file r rebuilt from it.
fastq_record(entry, r) == [name |-> entry, read |-> r]

\* The file system fs after the k-th of `paths` was given the k-th of
\* `contents`.
written(fs, paths, contents) ==
    [p \in DOMAIN fs \cup { paths[k] : k \in 1..Len(paths) } |->
        IF \E k \in 1..Len(paths) : paths[k] = p
        THEN contents[CHOOSE k \in 1..Len(paths) : paths[k] = p]
        ELSE fs[p]]

\* parser, lines 109-110: the first `opened` shards of the thread are
\* created (or truncated).
open_shards(fs, group, opened) ==
    written(fs, SubSeq(group, 1, opened), [k \in 1..opened |-> <<>>])

\* A parser thread that reopens its shards for every entry: each write
\* replaces what the shard held.
write_shards_overwrite(fs, group, entry, done) ==
    written(fs, SubSeq(group, 1, done),
            [k \in 1..done |-> << fastq_record(entry, k - 1) >>])

\* parser, lines 139-143: the entry is written to the first `done` shards of
\* the thread.
write_shards(fs, group, entry, done) ==
    written(fs, SubSeq(group, 1, done),
            [k \in 1..done |-> Append(fs[group[k]], fastq_record(entry, k - 1))])

\* q.put(item) on a queue that is not full.
queue_put(qu, item) == Append(qu, item)

\* A queue that hands out the newest item first.
queue_get_lifo(qu) == [item |-> qu[Len(qu)], rest |-> SubSeq(qu, 1, Len(qu) - 1)]

\* queue.get() on a queue that is not empty: the oldest item.
queue_get(qu) == [item |-> Head(qu), rest |-> Tail(qu)]

\* A producer that stops one thread too few.
n_sentinels_short(threads) == threads - 1

\* The number of q.put(None) calls, lines 203-204: one per started thread.
n_sentinels(threads) == threads

\* A merge that goes through the parts from the last to the first.
RECURSIVE copy_parts_reversed(_, _, _)
copy_parts_reversed(fs, group, out) ==
    IF group = <<>> THEN [content |-> out, error |-> ""]
    ELSE IF Head(group) \notin DOMAIN fs
    THEN [content |-> out, error |-> "FileNotFoundError"]
    ELSE copy_parts_reversed(fs, Tail(group), fs[Head(group)] \o out)

\* Lines 212-215 for one output file: the parts are copied in the order of
\* the group until one of them is missing.
RECURSIVE copy_parts(_, _, _)
copy_parts(fs, group, out) ==
    IF group = <<>> THEN [content |-> out, error |-> ""]
    ELSE IF Head(group) \notin DOMAIN fs
    THEN [content |-> out, error |-> "FileNotFoundError"]
    ELSE copy_parts(fs, Tail(group), out \o fs[Head(group)])

\* fqc_fastq is not running: the command was given a BAM file.
FqcIdle ==
    /\ call = "fqc_bam"
    /\ fastqs = <<>>
    /\ techArg = <<>>
    /\ pc = "fqc_bam"
    /\ reads = <<>>
    /\ ordered = <<>>
    /\ filtered = <<>>
    /\ technologies = <<>>
    /\ i = 0
    /\ barcodes = <<>>
    /\ umis = <<>>
    /\ invalids = <<>>
    /\ possible = <<>>
    /\ err = ""
    /\ unreadable = {}
    /\ exit_code = None
    /\ stdout = <<>>
    /\ diagnostic = ""

\* The parser threads that were started.
Threads == 0..(Len(parser_pc) - 1)

\* to_fastq(prefix, threads) is called on a BAM object whose technology was
\* detected.
InitBam ==
    /\ FqcIdle
    /\ \E tags \in TagLengths : bam_technology = detect_technology(tags[1], tags[2])
    /\ bam_count \in 0..MaxRecords
    /\ n_threads \in 1..MaxThreads
    /\ prefix \in Prefixes
    /\ maxsize \in 1..MaxQueue
    /\ main_pc = "idle"
    /\ n_put = 0
    /\ joined = 0
    /\ merged = 0
    /\ queue = <<>>
    /\ parser_pc = <<>>
    /\ held = <<>>
    /\ disk = <<>>
    /\ result = [kind |-> "None"]
    /\ bam_err = ""

\* Where to_fastq goes on after n q.put calls past the fetch loop: to the
\* next q.put(None), or to the joins when every sentinel is in the queue.
after_put(n) ==
    IF n < bam_count + n_sentinels(Len(parser_pc)) THEN "stop" ELSE "join"

\* Lines 187-196: the parser threads are started.
StartThreads ==
    /\ main_pc = "idle"
    /\ parser_pc' = [w \in 1..n_threads |-> "open"]
    /\ held' = [w \in 1..n_threads |-> None]
    /\ main_pc' = "put"
    /\ UNCHANGED <<bam_technology, bam_count, n_threads, prefix, maxsize, n_put,
                   joined, merged, queue, disk, result, bam_err, fqc_vars>>

\* Lines 198-200: q.put(item) of the next entry; it blocks while the queue
\* is full.
PutEntry ==
    /\ main_pc = "put"
    /\ n_put < bam_count
    /\ Len(queue) < maxsize
    /\ queue' = queue_put(queue, n_put + 1)
    /\ n_put' = n_put + 1
    /\ UNCHANGED <<bam_technology, bam_count, n_threads, prefix, maxsize, main_pc,
                   joined, merged, parser_pc, held, disk, result, bam_err, fqc_vars>>

\* Lines 199-203: f.fetch is exhausted, the BAM file is closed.
EndOfFile ==
    /\ main_pc = "put"
    /\ n_put = bam_count
    /\ main_pc' = after_put(n_put)
    /\ UNCHANGED <<bam_technology, bam_count, n_threads, prefix, maxsize, n_put,
                   joined, merged, queue, parser_pc, held, disk, result, bam_err,
                   fqc_vars>>

\* Lines 203-204: q.put(None), once per thread.
PutSentinel ==
    /\ main_pc = "stop"
    /\ Len(queue) < maxsize
    /\ queue' = queue_put(queue, None)
    /\ n_put' = n_put + 1
    /\ main_pc' = after_put(n_put')
    /\ UNCHANGED <<bam_technology, bam_count, n_threads, prefix, maxsize, joined,
                   merged, parser_pc, held, disk, result, bam_err, fqc_vars>>

\* Lines 205-206: t.join() of the next thread returns once it has ended.
Join ==
    /\ main_pc = "join"
    /\ parser_pc[joined + 1] \in {"exited", "raised"}
    /\ joined' = joined + 1
    /\ main_pc' = (IF joined' < n_threads THEN "join" ELSE "merge")
    /\ UNCHANGED <<bam_technology, bam_count, n_threads, prefix, maxsize, n_put,
                   merged, queue, parser_pc, held, disk, result, bam_err, fqc_vars>>

\* Lines 211-215 for the next output file: it is created and the shards of
\* its group are copied into it.
Merge ==
    /\ main_pc = "merge"
    /\ merged < bam_technology.n_files
    /\ LET out == output_paths(prefix, bam_technology)[merged + 1]
           group == shard_groups(prefix, bam_technology, n_threads)[merged + 1]
           copy == copy_parts(disk, group, <<>>)
       IN  /\ disk' = written(disk, << out >>, << copy.content >>)
           /\ IF copy.error # ""
              THEN /\ main_pc' = "raised"
                   /\ bam_err' = copy.error
                   /\ UNCHANGED merged
              ELSE /\ merged' = merged + 1
                   /\ UNCHANGED <<main_pc, bam_err>>
    /\ UNCHANGED <<bam_technology, bam_count, n_threads, prefix, maxsize, n_put,
                   joined, queue, parser_pc, held, result, fqc_vars>>

\* Line 217: return fastqs.
Return ==
    /\ main_pc = "merge"
    /\ merged = bam_technology.n_files
    /\ result' = [kind |-> "list", items |-> output_paths(prefix, bam_technology)]
    /\ main_pc' = "returned"
    /\ UNCHANGED <<bam_technology, bam_count, n_threads, prefix, maxsize, n_put,
                   joined, merged, queue, parser_pc, held, disk, bam_err, fqc_vars>>

\* The shards of thread w.
group_of(w) == thread_group(shard_groups(prefix, bam_technology, n_threads), w)

\* parser, lines 109-110: thread w opens its shards for writing.
ParserOpen(w) ==
    /\ parser_pc[w + 1] = "open"
    /\ disk' = open_shards(disk, group_of(w), bam_technology.n_files)
    /\ parser_pc' = [parser_pc EXCEPT ![w + 1] = "get"]
    /\ UNCHANGED <<bam_technology, bam_count, n_threads, prefix, maxsize, main_pc,
                   n_put, joined, merged, queue, held, result, bam_err, fqc_vars>>

\* parser, lines 113-115: queue.get() blocks while the queue is empty; the
\* sentinel ends the thread (its files are closed).
ParserGet(w) ==
    /\ parser_pc[w + 1] = "get"
    /\ queue # <<>>
    /\ queue' = queue_get(queue).rest
    /\ IF queue_get(queue).item = None
       THEN /\ parser_pc' = [parser_pc EXCEPT ![w + 1] = "exited"]
            /\ UNCHANGED held
       ELSE /\ parser_pc' = [parser_pc EXCEPT ![w + 1] = "write"]
            /\ held' = [held EXCEPT ![w + 1] = queue_get(queue).item]
    /\ UNCHANGED <<bam_technology, bam_count, n_threads, prefix, maxsize, main_pc,
                   n_put, joined, merged, disk, result, bam_err, fqc_vars>>

\* parser, lines 116-144: the reads of the entry are rebuilt and written,
\* one to each shard of the thread.
ParserWrite(w) ==
    /\ parser_pc[w + 1] = "write"
    /\ disk' = write_shards(disk, group_of(w), held[w + 1], bam_technology.n_files)
    /\ held' = [held EXCEPT ![w + 1] = None]
    /\ parser_pc' = [parser_pc EXCEPT ![w + 1] = "get"]
    /\ UNCHANGED <<bam_technology, bam_count, n_threads, prefix, maxsize, main_pc,
                   n_put, joined, merged, queue, result, bam_err, fqc_vars>>

\* parser, line 110: open_as_text raises on one of the shards of thread w;
\* the shards before it exist, the exception ends the thread.
ParserOpenFails(w) ==
    /\ parser_pc[w + 1] = "open"
    /\ \E opened \in 0..(bam_technology.n_files - 1) :
         disk' = open_shards(disk, group_of(w), opened)
    /\ parser_pc' = [parser_pc EXCEPT ![w + 1] = "raised"]
    /\ UNCHANGED <<bam_technology, bam_count, n_threads, prefix, maxsize, main_pc,
                   n_put, joined, merged, queue, held, result, bam_err, fqc_vars>>

\* parser, lines 139-143: file.write raises on one of the shards of thread
\* w; the shards before it hold the entry, the exception ends the thread.
ParserWriteFails(w) ==
    /\ parser_pc[w + 1] = "write"
    /\ \E done \in 0..(bam_technology.n_files - 1) :
         disk' = write_shards(disk, group_of(w), held[w + 1], done)
    /\ held' = [held EXCEPT ![w + 1] = None]
    /\ parser_pc' = [parser_pc EXCEPT ![w + 1] = "raised"]
    /\ UNCHANGED <<bam_technology, bam_count, n_threads, prefix, maxsize, main_pc,
                   n_put, joined, merged, queue, result, bam_err, fqc_vars>>

NextBam ==
    \/ StartThreads
    \/ PutEntry
    \/ EndOfFile
    \/ PutSentinel
    \/ Join
    \/ Merge
    \/ Return
    \/ \E w \in Threads : ParserOpen(w)
    \/ \E w \in Threads : ParserGet(w)
    \/ \E w \in Threads : ParserWrite(w)

\* to_fastq while every shard can be created and written.
SpecBam == InitBam /\ [][NextBam]_vars

\* The same under the scheduling of threads: while some thread can take a
\* step, one of them does (no assumption on which one).
FairSpecBam == SpecBam /\ WF_vars(NextBam)

NextBamFaults ==
    \/ NextBam
    \/ \E w \in Threads : ParserOpenFails(w)
    \/ \E w \in Threads : ParserWriteFails(w)

\* to_fastq on a file system where creating or writing a shard can fail.
SpecBamFaults == InitBam /\ [][NextBamFaults]_vars

----------------------------------------------------------------------------
(* What the claims speak of, stated on the input and not through the      *)
(* operators above                                                         *)

RECURSIVE Factorial(_)
Factorial(n) == IF n <= 0 THEN 1 ELSE n * Factorial(n - 1)

\* The orderings of 0..n-1.
PermSet(n) == { p \in [1..n -> 0..(n - 1)] : \A a, b \in 1..n : p[a] = p[b] => a = b }

\* p comes before q in lexicographic order.
LexLess(p, q) ==
    \E k \in 1..Len(p) : /\ k <= Len(q)
                         /\ p[k] < q[k]
                         /\ \A m \in 1..(k - 1) : p[m] = q[m]

\* The technology list an enumeration is over: the registry when the caller
\* gives none.
GivenTechnologies == IF techArg = <<>> THEN TECHNOLOGIES ELSE techArg

\* filter_files has run.
FilesFiltered == ordered # <<>>

Hyps == { technologies[k] : k \in 1..Len(technologies) }

\* The read of input file f (0-based, among the files considered) at
\* position j (0-based).
ReadAt(f, j) == reads[f + 1].rs[j + 1]

Regions(h) ==
    { h.technology.barcode_positions[r] : r \in 1..Len(h.technology.barcode_positions) }
    \cup { h.technology.umi_positions[r] : r \in 1..Len(h.technology.umi_positions) }

\* Every barcode and UMI region of h lies within the read it resolves to at
\* position j.
Covered(h, j) ==
    \A s \in Regions(h) :
        /\ s.file < Len(h.permutation)
        /\ Len(ReadAt(h.permutation[s.file + 1], j)) > s.start
        /\ Len(ReadAt(h.permutation[s.file + 1], j)) >= s.stop

\* h is in the invalid set of its technology.
IsInvalid(h) ==
    /\ h.technology.name \in DOMAIN invalids
    /\ h.permutation \in invalids[h.technology.name]

\* The substrings of the regions `positions`, in declaration order, at
\* position j under hypothesis h.
Substrings(h, positions, j) ==
    [r \in 1..Len(positions) |->
        SubSeq(ReadAt(h.permutation[positions[r].file + 1], j),
               positions[r].start + 1, positions[r].stop)]

RECURSIVE Concat(_)
Concat(list) == IF Len(list) = 0 THEN <<>> ELSE list[1] \o Concat(Tail(list))

\* The sampled barcode of h at position j: all barcode regions concatenated.
BarcodeAt(h, j) == Concat(Substrings(h, h.technology.barcode_positions, j))

WhitelistBacked(h) == h.technology.whitelist_path # NoPath

\* h survives extraction over the whole sample.
Valid(h) == \A j \in 0..(n_positions - 1) : Covered(h, j)

\* The number of sampled barcodes of h that are in its whitelist.
MatchCount(h) ==
    Cardinality({ j \in 0..(n_positions - 1) :
                    BarcodeAt(h, j) \in Whitelist(h.technology.whitelist_path) })

\* matchCount > sampleSize * 0.5
Qualifies(h) == WhitelistBacked(h) /\ Valid(h) /\ 2 * MatchCount(h) > n_positions

\* The positions in the hypothesis list of the qualifying hypotheses with
\* the largest match count.
MaxQualifying ==
    LET Q == { k \in 1..Len(technologies) : Qualifies(technologies[k]) }
        counts == { MatchCount(technologies[k]) : k \in Q }
        largest == CHOOSE c \in counts : \A d \in counts : d <= c
    IN  { k \in Q : MatchCount(technologies[k]) = largest }

Returned == { possible[k] : k \in 1..Len(possible) }

\* The entry of hypothesis h in one of the dicts of extract_barcodes_umis.
HasEntry(d, h) ==
    /\ h.technology.name \in DOMAIN d
    /\ \E k \in 1..Len(d[h.technology.name]) : d[h.technology.name][k].p = h.permutation

EntryOf(d, h) ==
    LET od == d[h.technology.name]
    IN  od[CHOOSE k \in 1..Len(od) : od[k].p = h.permutation].v

\* The number of distinct sampled barcodes of h.
Unique(h) == Cardinality({ BarcodeAt(h, j) : j \in 0..(n_positions - 1) })

\* expected - observed > 0, for expected = S * (1 - ((S - 1) / S) ^ n) with
\* S = 4 ^ L: for 2 <= n <= S the expectation lies strictly between n - 1
\* and n, and it is n for n <= 1, so the deficit is positive exactly when
\* fewer than n distinct barcodes were seen.
PositiveDeficit(h) == Unique(h) < n_positions

\* The non-whitelist hypotheses with a positive deficit that is strictly
\* larger than that of every other non-whitelist hypothesis (the model holds
\* one technology without a whitelist, so a larger deficit is a smaller
\* number of distinct barcodes).
StrictMaxDeficit ==
    { h \in Hyps : /\ ~WhitelistBacked(h)
                   /\ Valid(h)
                   /\ PositiveDeficit(h)
                   /\ \A g \in Hyps \ {h} :
                        (~WhitelistBacked(g) /\ Valid(g)) => Unique(g) > Unique(h) }

EmptySample == \A f \in 1..Len(fastqs) : fastqs[f] = <<>>

----------------------------------------------------------------------------
(* Claims *)

\* The hypotheses of technology t that filter_files kept, as positions.
KeptOf(t) == { k \in 1..Len(filtered) : filtered[k].technology = t }

\* C1: enumeration for N input files (all_ordered_technologies, then
\* filter_files) yields, for every technology with n_files = N, exactly N!
\* hypotheses, one per permutation of 0..N-1, and none for a technology
\* whose n_files differs from N.
C1_EnumerationCount ==
    FilesFiltered =>
        LET N == Len(reads)
            T == { GivenTechnologies[k] : k \in 1..Len(GivenTechnologies) }
        IN  /\ \A k \in 1..Len(filtered) : filtered[k].technology \in T
            /\ \A t \in T :
                 IF t.n_files = N
                 THEN /\ Cardinality(KeptOf(t)) = Factorial(N)
                      /\ \A p \in PermSet(N) :
                           Cardinality({ k \in KeptOf(t) : filtered[k].permutation = p }) = 1
                 ELSE KeptOf(t) = {}

\* C1's case: three files, the two 3-file technologies kept with six
\* orderings each and the two 2-file technologies dropped.
C1_Witness ==
    /\ FilesFiltered
    /\ Len(reads) = 3
    /\ Len(ordered) = 24
    /\ Len(filtered) = 12

\* C2: all_ordered_technologies(technologies, n) returns, for each technology
\* in the order given, every permutation of range(n) exactly once, in
\* lexicographic order (technology-major, permutation-minor); for n = 2 the
\* permutations of a technology are (0, 1), (1, 0).
C2_EnumerationOrder ==
    FilesFiltered =>
        LET N == Len(reads)
            T == GivenTechnologies
            P == Factorial(N)
            Perms == PermSet(N)
            At(k, j) == ordered[(k - 1) * P + j]
        IN  /\ Len(ordered) = Len(T) * P
            /\ \A k \in 1..Len(T) :
                 /\ \A j \in 1..P : /\ At(k, j).technology = T[k]
                                    /\ At(k, j).permutation \in Perms
                 /\ \A j \in 1..(P - 1) :
                      LexLess(At(k, j).permutation, At(k, j + 1).permutation)
                 /\ N = 2 => /\ At(k, 1).permutation = <<0, 1>>
                             /\ At(k, 2).permutation = <<1, 0>>

\* C2's case: a caller's list of five technologies over two files, ten
\* hypotheses.
C2_Witness ==
    /\ FilesFiltered
    /\ techArg # <<>>
    /\ Len(reads) = 2
    /\ Len(ordered) = 10

\* extract_barcodes_umis is running or has returned.
Extracting == pc \in {"extract", "score", "done"}

\* C3: a hypothesis is in the invalid set if and only if, at some read
\* position processed so far, one of its barcode or UMI regions resolves to
\* a read of length <= start or < stop (the first such position is reached
\* while the hypothesis is still valid); a hypothesis whose regions every
\* sampled read covers is never invalid.
C3_InvalidIffTooShort ==
    Extracting =>
        \A h \in Hyps : IsInvalid(h) <=> (\E j \in 0..(i - 1) : ~Covered(h, j))

\* C3's case: extraction is over, one hypothesis was invalidated at a later
\* position after a read that covered it, and another one is covered by
\* every read and valid.
C3_Witness ==
    /\ pc = "score"
    /\ \E h \in Hyps : IsInvalid(h) /\ Covered(h, 0)
    /\ \E h \in Hyps : ~IsInvalid(h) /\ n_positions >= 2 /\ Valid(h)

\* No permutation of an invalid set has an entry in the barcode or UMI
\* mapping of its technology.
NoInvalidEntry ==
    \A name \in DOMAIN invalids :
        \A p \in invalids[name] :
            /\ \A k \in 1..Len(barcodes[name]) : barcodes[name][k].p # p
            /\ \A k \in 1..Len(umis[name]) : umis[name][k].p # p

InvalidationStep ==
    (pc = "extract" /\ pc' \in {"extract", "score"}) =>
        /\ \A name \in DOMAIN invalids :
             /\ name \in DOMAIN invalids'
             /\ invalids[name] \subseteq invalids'[name]
        /\ NoInvalidEntry'

\* C4: over every processed read position the invalid set of a technology
\* only grows, and afterwards no permutation in an invalid set has an entry
\* in the barcode or UMI mapping of its technology.
C4_InvalidationMonotonic == [][InvalidationStep]_vars

\* C4's case: a hypothesis whose entry of position 0 was deleted when
\* position 1 invalidated it, with position 2 processed after that.
C4_Witness ==
    /\ pc = "extract"
    /\ i = 3
    /\ \E h \in Hyps : /\ IsInvalid(h)
                       /\ Covered(h, 0)
                       /\ ~Covered(h, 1)
                       /\ ~HasEntry(barcodes, h)
                       /\ ~HasEntry(umis, h)

\* What C5 says of a hypothesis h that was not invalidated: a barcode list
\* and a UMI list with one entry per sampled position, entry j holding the
\* substrings of the regions in declaration order.
ExtractedInOrder(h) ==
    /\ HasEntry(barcodes, h)
    /\ HasEntry(umis, h)
    /\ Len(EntryOf(barcodes, h)) = n_positions
    /\ Len(EntryOf(umis, h)) = n_positions
    /\ \A j \in 0..(n_positions - 1) :
         /\ EntryOf(barcodes, h)[j + 1] = Substrings(h, h.technology.barcode_positions, j)
         /\ EntryOf(umis, h)[j + 1] = Substrings(h, h.technology.umi_positions, j)

\* C5: for every hypothesis that is never invalidated, extract_barcodes_umis
\* returns a barcode list and a UMI list of equal length with exactly one
\* entry per sampled read position, in position order, entry i holding the
\* substrings [start:stop) of the position-i read of file
\* permutation[region.file], in declaration order.
C5_OneEntryPerPosition ==
    pc = "score" => \A h \in Hyps : ~IsInvalid(h) => ExtractedInOrder(h)

\* The same with at least one read position sampled (not a claim's formula:
\* it bounds where the code leaves C5).
ExtractedWhenSampled ==
    (pc = "score" /\ n_positions >= 1) =>
        \A h \in Hyps : ~IsInvalid(h) => ExtractedInOrder(h)

\* C6: filter_barcodes_umis returns a hypothesis only if it is
\* whitelist-backed and more than sampleSize * 0.5 of its sampled barcodes
\* are in the whitelist; the returned hypothesis has the largest match count
\* of all qualifying hypotheses; when none qualifies the result is empty.
C6_ThresholdAndMaximum ==
    pc = "done" =>
        /\ \A r \in Returned :
             /\ r \in Hyps
             /\ Qualifies(r)
             /\ \A h \in Hyps : Qualifies(h) => MatchCount(h) <= MatchCount(r)
        /\ (\A h \in Hyps : ~Qualifies(h)) => possible = <<>>

\* C6's case: three reads sampled, a hypothesis returned with all three
\* barcodes whitelisted while another one qualifies with two, and a third
\* one survives extraction and does not qualify.
C6_Witness ==
    /\ pc = "done"
    /\ n_positions = 3
    /\ possible # <<>>
    /\ \E h \in Hyps : Qualifies(h) /\ MatchCount(h) < MatchCount(possible[1])
    /\ \E h \in Hyps : WhitelistBacked(h) /\ Valid(h) /\ ~Qualifies(h)

\* C7: when two or more qualifying hypotheses share the largest match count,
\* filter_barcodes_umis returns the first of them in enumeration order.
C7_FirstOfTiesWins ==
    pc = "done" =>
        LET M == MaxQualifying
        IN  Cardinality(M) >= 2 => possible = << technologies[Min(M)] >>

\* C7's case: hypotheses of two technologies tie at the largest count and
\* the one returned is the first of them.
C7_Witness ==
    /\ pc = "done"
    /\ \E a, b \in MaxQualifying :
         technologies[a].technology.name # technologies[b].technology.name
    /\ possible = << technologies[Min(MaxQualifying)] >>

\* C8 as claimed: when more than one hypothesis scores maximally, all of
\* them are returned as a multi-element result.
C8_AllTiesReturned ==
    pc = "done" =>
        LET M == MaxQualifying
        IN  Cardinality(M) >= 2 => Returned = { technologies[k] : k \in M }

\* C8 as amended: filter_barcodes_umis never returns more than one
\* hypothesis; when more than one scores maximally it returns exactly one of
\* them and drops the others.
C8_OneOfTiesReturned ==
    pc = "done" =>
        /\ Len(possible) <= 1
        /\ LET M == MaxQualifying
           IN  Cardinality(M) >= 2 =>
                 /\ Len(possible) = 1
                 /\ \E k \in M : possible[1] = technologies[k]
                 /\ \E k \in M : technologies[k] \notin Returned

\* C8's case: fqc_fastq ends with several hypotheses of the largest count
\* and a result of one element.
C8_Witness ==
    /\ pc = "done"
    /\ call = "fqc_fastq"
    /\ Cardinality(MaxQualifying) >= 2
    /\ Len(possible) = 1

\* C9 as claimed: when no whitelist-backed hypothesis qualifies, the
\* non-whitelist hypothesis with the strict maximum positive deficit is
\* returned; when one qualifies, only whitelist-backed hypotheses are.
C9_DeficitTier ==
    pc = "done" =>
        /\ (\A h \in Hyps : ~Qualifies(h)) =>
             \A d \in StrictMaxDeficit : possible = << d >>
        /\ (\E h \in Hyps : Qualifies(h)) =>
             \A r \in Returned : WhitelistBacked(r)

\* C9 as amended: filter_barcodes_umis scores whitelist-backed technologies
\* only: every hypothesis it returns is whitelist-backed, and when no
\* whitelist-backed hypothesis qualifies the result is empty, whatever the
\* deficit of the hypotheses without a whitelist.
C9_WhitelistOnly ==
    pc = "done" =>
        /\ \A r \in Returned : WhitelistBacked(r)
        /\ (\A h \in Hyps : ~Qualifies(h)) => possible = <<>>

\* C9's case: no whitelist-backed hypothesis qualifies, a hypothesis without
\* a whitelist has the strict maximum positive deficit, and nothing is
\* returned.
C9_Witness ==
    /\ pc = "done"
    /\ \A h \in Hyps : ~Qualifies(h)
    /\ StrictMaxDeficit # {}
    /\ possible = <<>>

\* C10: with an empty sample (every input supplies zero reads) the
\* classification completes without raising and returns no hypothesis.
C10_EmptySampleCompletes ==
    EmptySample => /\ pc # "raised"
                   /\ pc = "done" => possible = <<>>

\* The whitelist file of hypothesis h could be opened.
Readable(h) == h.technology.whitelist_path \notin unreadable

\* C11: a missing or unreadable whitelist file only drops its technology
\* from whitelist scoring: the run does not abort on it, no hypothesis of
\* that technology is returned, and a qualifying hypothesis of a technology
\* whose whitelist is readable is still scored and something is returned
\* (stated for a sample of at least one read position).
C11_MissingWhitelistTolerated ==
    n_positions >= 1 =>
        /\ err # "FileNotFoundError"
        /\ (pc = "done" /\ unreadable # {}) =>
             /\ \A r \in Returned : Readable(r)
             /\ (\E h \in Hyps : Readable(h) /\ Qualifies(h)) => possible # <<>>

\* The number of files considered is the n_files of no registered
\* technology.
UnsupportedShape == \A t \in 1..Len(TECHNOLOGIES) : TECHNOLOGIES[t].n_files # Len(reads)

\* C12: when the number of files considered matches no registered
\* technology, fqc_fastq raises nothing and reports an empty hypothesis
\* list; it never returns a hypothesis whose technology has another n_files
\* than the number of files considered.
C12_UnsupportedShapeEmpty ==
    (call = "fqc_fastq" /\ FilesFiltered) =>
        /\ UnsupportedShape => /\ err = ""
                               /\ pc \in {"done", "exit"} => possible = <<>>
        /\ \A r \in Returned : r.technology.n_files = Len(reads)

\* C13: at the command line, a classification that ends with no hypothesis
\* or with more than one leads to a non-zero exit status together with a
\* diagnostic; the technology name and the reordered file list are printed
\* only when exactly one hypothesis survives.
C13_NonZeroExitUnlessOne ==
    pc = "exit" =>
        /\ Len(possible) # 1 => (exit_code # 0 /\ (diagnostic # "" \/ err # ""))
        /\ stdout # <<>> => Len(possible) = 1

----------------------------------------------------------------------------
(* Claims about BAM.to_fastq *)

\* The names of the records of the file at `path`, in file order.
Names(path) == [k \in 1..Len(disk[path]) |-> disk[path][k].name]

\* The output file of role r (0-based) and its shard of thread w, by the
\* naming rule of the claims.
OutputOf(r) ==
    IF prefix = "" THEN ToString(r + 1) \o ".fastq.gz"
    ELSE prefix \o "_" \o ToString(r + 1) \o ".fastq.gz"

ShardOf(r, w) ==
    IF prefix = "" THEN ToString(r + 1) \o "_part" \o ToString(w) \o ".fastq.gz"
    ELSE prefix \o "_" \o ToString(r + 1) \o "_part" \o ToString(w) \o ".fastq.gz"

Roles == 0..(bam_technology.n_files - 1)

\* C14: when to_fastq finishes there are exactly technology.n_files output
\* files and each of them holds exactly bam_count records, every entry of
\* the BAM file exactly once (written by the one thread that dequeued it),
\* as the read of that file's role, for every number of entries, every
\* number of threads and every interleaving.
C14_EveryRecordOnce ==
    main_pc = "returned" =>
        /\ Len(result.items) = bam_technology.n_files
        /\ \A r \in Roles :
             /\ result.items[r + 1] = OutputOf(r)
             /\ OutputOf(r) \in DOMAIN disk
             /\ Len(disk[OutputOf(r)]) = bam_count
             /\ \A e \in 1..bam_count :
                  Cardinality({ k \in 1..bam_count : disk[OutputOf(r)][k].name = e }) = 1
             /\ \A k \in 1..bam_count : disk[OutputOf(r)][k].read = r

\* C14's case: three entries and two threads, each of which wrote at least
\* one entry, with the producer held back by a queue of capacity one.
C14_Witness ==
    /\ main_pc = "returned"
    /\ bam_count = 3
    /\ n_threads = 2
    /\ maxsize = 1
    /\ bam_technology.n_files = 3
    /\ disk[ShardOf(0, 0)] # <<>>
    /\ disk[ShardOf(0, 1)] # <<>>

\* The sentinels the producer has put, those still in the queue, and the
\* threads that ended on one.
SentinelsPut == IF n_put > bam_count THEN n_put - bam_count ELSE 0

SentinelsQueued == Cardinality({ k \in 1..Len(queue) : queue[k] = None })

Exited == { w \in Threads : parser_pc[w + 1] = "exited" }

\* The protocol at every moment: the queue never exceeds its capacity;
\* sentinels are put only after the last entry and queue up behind every
\* entry; at most one per thread is put, all of them before the joins; each
\* sentinel that left the queue ended exactly one thread; and the merge
\* runs with the queue empty and every thread ended.
PoisonPillProtocol ==
    /\ Len(queue) <= maxsize
    /\ SentinelsPut <= n_threads
    /\ SentinelsQueued > 0 => n_put >= bam_count
    /\ \A k \in 1..Len(queue) : \A m \in k..Len(queue) :
         queue[k] = None => queue[m] = None
    /\ SentinelsPut - SentinelsQueued = Cardinality(Exited)
    /\ main_pc \in {"join", "merge", "returned"} => SentinelsPut = n_threads
    /\ main_pc \in {"merge", "returned"} =>
         /\ queue = <<>>
         /\ Cardinality(Exited) = n_threads

\* C15: the poison-pill protocol terminates: the producer, which blocks
\* while the queue is full, puts exactly one sentinel per thread after the
\* last entry, every thread consumes exactly one sentinel and exits, and
\* under fair scheduling the run always reaches the merge with the queue
\* empty, for every number of entries, threads and every queue capacity.
C15_PoisonPillTerminates ==
    /\ []PoisonPillProtocol
    /\ <>(main_pc = "merge" /\ queue = <<>> /\ Cardinality(Exited) = n_threads)

\* C15's case: the merge is reached with three entries and two sentinels
\* gone through a queue of capacity one.
C15_Witness ==
    /\ main_pc = "merge"
    /\ queue = <<>>
    /\ bam_count = 3
    /\ n_threads = 2
    /\ maxsize = 1
    /\ Cardinality(Exited) = 2

\* Idle, Streaming, Draining, Merged as 0..3: Streaming is the fetch loop,
\* Draining the sentinels and the joins, Merged the combination of the
\* shards and the return.
Phase ==
    CASE main_pc = "idle" -> 0
      [] main_pc = "put" -> 1
      [] main_pc \in {"stop", "join"} -> 2
      [] main_pc \in {"merge", "returned"} -> 3
      [] OTHER -> 4

\* No output file exists before every thread has ended and the run is in
\* Merged.
OutputsAfterExit ==
    (\E r \in Roles : OutputOf(r) \in DOMAIN disk) =>
        /\ Phase = 3
        /\ Cardinality(Exited) = n_threads

\* Every output file is the concatenation of the shards of its role in
\* thread order 0..n_threads-1.
OutputsAreShardsInOrder ==
    \A r \in Roles :
        disk[OutputOf(r)] = Concat([w \in 1..n_threads |-> disk[ShardOf(r, w - 1)]])

PhaseStep ==
    /\ Phase' \in {Phase, Phase + 1}
    /\ OutputsAfterExit'
    /\ main_pc' = "returned" => OutputsAreShardsInOrder'

\* C16: a run goes through Idle, Streaming, Draining, Merged in that order,
\* the concatenation of shards starts only after every thread has exited,
\* and each output file is the concatenation of the shards of its role in
\* thread order 0..W-1.
C16_PhasesInOrder == [][PhaseStep]_vars

\* C16's case: a finished run of two threads whose concatenation is not the
\* input order: thread 0 wrote a later entry than thread 1.
C16_Witness ==
    /\ main_pc = "returned"
    /\ n_threads = 2
    /\ disk[ShardOf(0, 0)] # <<>>
    /\ disk[ShardOf(0, 1)] # <<>>
    /\ disk[ShardOf(0, 0)][1].name > disk[ShardOf(0, 1)][1].name
    /\ OutputsAreShardsInOrder

\* C17: after the merge every per-thread shard file has been deleted: the
\* only files the run leaves behind are the technology.n_files output
\* files.
C17_ShardsDeleted ==
    main_pc = "returned" => DOMAIN disk = { OutputOf(r) : r \in Roles }

\* The threads that an exception ended.
Failed == { w \in Threads : parser_pc[w + 1] = "raised" }

\* C18: once a thread has failed to create or write one of its shards the
\* run aborts: it does not go on to Merged, creates no output file, returns
\* no paths, and the producer is not left waiting on a full queue that no
\* thread will empty.
C18_WriteFailureAborts ==
    Failed # {} =>
        /\ main_pc \notin {"merge", "returned"}
        /\ \A r \in Roles : OutputOf(r) \notin DOMAIN disk
        /\ result.kind = "None"
        /\ ~ /\ (main_pc = "put" /\ n_put < bam_count) \/ main_pc = "stop"
             /\ Len(queue) = maxsize
             /\ \A w \in Threads : parser_pc[w + 1] \in {"raised", "exited"}

\* C19: to_fastq(prefix) returns the pair (fastqs, technologies): fastqs the
\* technology.n_files paths '{prefix}_{i}.fastq.gz', i from 1, and
\* technologies the one-element list of the detected technology with the
\* identity permutation.
C19_ReturnsPair ==
    main_pc = "returned" =>
        /\ result.kind = "tuple"
        /\ Len(result.items) = 2
        /\ result.items[1] = [r \in 1..bam_technology.n_files |-> OutputOf(r - 1)]
        /\ result.items[2] =
             << OrderedTechnology(bam_technology,
                                  [k \in 1..bam_technology.n_files |-> k - 1]) >>

\* The names of `seq` are in the order of the input.
Increasing(seq) == \A k \in 1..(Len(seq) - 1) : seq[k] < seq[k + 1]

\* C20: at every moment each shard of a thread holds, in input order, the
\* entries that thread dequeued and wrote (the same ones in each of its
\* shards, none of them in a shard of another thread, all of them before
\* the entry it holds); with a single thread every output file lists all
\* entries in the input order.
C20_ShardsKeepInputOrder ==
    /\ \A w \in Threads : \A r \in Roles :
         ShardOf(r, w) \in DOMAIN disk =>
            /\ Increasing(Names(ShardOf(r, w)))
            /\ Names(ShardOf(r, w)) = Names(ShardOf(0, w))
            /\ \A k \in 1..Len(disk[ShardOf(r, w)]) :
                 /\ held[w + 1] # None => disk[ShardOf(r, w)][k].name < held[w + 1]
                 /\ \A v \in Threads \ {w} :
                      ShardOf(r, v) \in DOMAIN disk =>
                         \A m \in 1..Len(disk[ShardOf(r, v)]) :
                            disk[ShardOf(r, v)][m].name # disk[ShardOf(r, w)][k].name
    /\ (main_pc = "returned" /\ n_threads = 1) =>
         \A r \in Roles : Names(OutputOf(r)) = [k \in 1..bam_count |-> k]

\* C20's case: two threads, one of which wrote entries 1 and 3 with entry 2
\* in the shard of the other.
C20_Witness ==
    /\ main_pc = "returned"
    /\ n_threads = 2
    /\ Names(ShardOf(0, 0)) = <<1, 3>>
    /\ Names(ShardOf(0, 1)) = <<2>>
    /\ Names(OutputOf(0)) = <<1, 3, 2>>

\* C21: after the merge the output files are paired, for every number of
\* threads and every interleaving: they have the same number of records
\* and, at every position, the records of all of them were rebuilt from the
\* same entry (same read name), each as the read of its own file.
C21_OutputsPaired ==
    main_pc = "returned" =>
        \A r \in Roles :
            /\ Len(disk[OutputOf(r)]) = Len(disk[OutputOf(0)])
            /\ \A k \in 1..Len(disk[OutputOf(r)]) :
                 /\ disk[OutputOf(r)][k].name = disk[OutputOf(0)][k].name
                 /\ disk[OutputOf(r)][k].read = r

\* C21's case: three output files of two threads whose records are not in
\* input order: thread 0 wrote entry 2, thread 1 entries 1 and 3.
C21_Witness ==
    /\ main_pc = "returned"
    /\ n_threads = 2
    /\ bam_technology.n_files = 3
    /\ Names(OutputOf(0)) = <<2, 1, 3>>
    /\ Names(OutputOf(2)) = <<2, 1, 3>>

====
